---- MODULE Spec2Model ----
(***************************************************************************)
(* A model of preprocess.py: process_posts loads a batch of posts from a   *)
(* JSON file, asks the LLM for metadata of every post (extract_metadata),  *)
(* asks it once for a unified tag mapping (get_unified_tags), rewrites     *)
(* every post's tags through the mapping and writes the enriched batch.    *)
(*                                                                         *)
(* Text is a sequence of code points, a file a sequence of bytes.  JSON    *)
(* values are records (objects), sequences (arrays), strings and numbers.  *)
(***************************************************************************)
EXTENDS Integers, Sequences, FiniteSets, TLC

VARIABLES
    file,            \* the bytes stored at raw_file_path
    pc,              \* the position of process_posts
    encIdx,          \* the index into encodings of the loader's for loop
    tried,           \* the encodings the loader has opened the file with
    printed,         \* the diagnostics printed so far
    input,           \* history: the batch as json.load returned it
    posts,           \* the list posts (its texts are cleaned in place)
    idx,             \* the 1-based position of the running for loop
    enriched_posts,  \* the list enriched_posts
    inflight,        \* the LLM calls issued and not yet answered
    calls,           \* history: every LLM call issued, in order
    responses,       \* history: the parsed extractor replies, in order
    unified_tags,    \* the unifier's parsed reply
    outfile,         \* processed_file_path: whether it exists, and its content
    writes,          \* how many times the output file was written
    exception,       \* the exception that left process_posts, or NoException
    twice            \* EmojiSpec: remove_emoji applied to the text sent, or NotYet

vars == <<file, pc, encIdx, tried, printed, input, posts, idx, enriched_posts,
          inflight, calls, responses, unified_tags, outfile, writes, exception,
          twice>>

(***************************************************************************)
(* Bounds of the model.                                                    *)
(***************************************************************************)
MaxPosts == 2
MaxEmojiStrLen == 3

\* Sequences over A of length at most n.
SeqsUpTo(A, n) == UNION {[1..k -> A] : k \in 0..n}

Range(s) == {s[k] : k \in DOMAIN s}

\* The positions of s that pass Test, in order.
Positions(s, Test(_)) == SelectSeq([k \in 1..Len(s) |-> k], Test)

(***************************************************************************)
(* remove_emoji.  The character class of emoji_pattern is the union of the *)
(* six ranges; "[...]+" matches every maximal run of characters of the     *)
(* class, and sub replaces each run by the empty string.                   *)
(***************************************************************************)
InEmojiClass(c) ==
    \/ \H1F600 <= c /\ c <= \H1F64F
    \/ \H1F300 <= c /\ c <= \H1F5FF
    \/ \H1F680 <= c /\ c <= \H1F6FF
    \/ \H1F1E0 <= c /\ c <= \H1F1FF
    \/ \H2702 <= c /\ c <= \H27B0
    \/ \H24C2 <= c /\ c <= \H1F251

\* The end (exclusive) of the match of [class]+ that starts at position k.
RECURSIVE MatchEnd(_, _)
MatchEnd(text, k) ==
    IF k <= Len(text) /\ InEmojiClass(text[k]) THEN MatchEnd(text, k + 1) ELSE k

\* re.sub from position k: a match is dropped whole, any other character copied.
RECURSIVE SubFrom(_, _)
SubFrom(text, k) ==
    IF k > Len(text) THEN <<>>
    ELSE IF MatchEnd(text, k) > k THEN SubFrom(text, MatchEnd(text, k))
    ELSE <<text[k]>> \o SubFrom(text, k + 1)

\* re.sub with count=1: only the first match is dropped.
remove_emoji_first_match_only(text) ==
    LET starts == Positions(text, LAMBDA k : InEmojiClass(text[k]))
    IN  IF starts = <<>> THEN text
        ELSE SubSeq(text, 1, starts[1] - 1)
             \o SubSeq(text, MatchEnd(text, starts[1]), Len(text))

remove_emoji(text) == SubFrom(text, 1)

(***************************************************************************)
(* Text codecs.  encode is what stores a text as a file; decode is what    *)
(* open(..., encoding=e, errors='ignore') followed by file.read() yields.  *)
(***************************************************************************)
encodings == <<"utf-8", "utf-16", "latin1">>

IsCont(b) == 128 <= b /\ b <= 191

Utf8Encode1(c) ==
    IF c < 128 THEN <<c>>
    ELSE IF c < 2048 THEN <<192 + (c \div 64), 128 + (c % 64)>>
    ELSE IF c < 65536
         THEN <<224 + (c \div 4096), 128 + ((c \div 64) % 64), 128 + (c % 64)>>
    ELSE <<240 + (c \div 262144), 128 + ((c \div 4096) % 64),
           128 + ((c \div 64) % 64), 128 + (c % 64)>>

\* The 16-bit code units of c (a surrogate pair above the basic plane).
Utf16Units(c) ==
    IF c < 65536 THEN <<c>>
    ELSE <<55296 + ((c - 65536) \div 1024), 56320 + ((c - 65536) % 1024)>>

\* The concatenation of the sequences of ss (by halves, to stay shallow).
RECURSIVE Flatten(_)
Flatten(ss) ==
    IF Len(ss) = 0 THEN <<>>
    ELSE IF Len(ss) = 1 THEN ss[1]
    ELSE Flatten(SubSeq(ss, 1, Len(ss) \div 2))
         \o Flatten(SubSeq(ss, (Len(ss) \div 2) + 1, Len(ss)))


LittleEndian(u) == <<u % 256, u \div 256>>

Utf8Encode(text) == Flatten([k \in DOMAIN text |-> Utf8Encode1(text[k])])

\* Python's "utf-16" codec writes a byte order mark, then little-endian units.
Utf16Encode(text) ==
    <<255, 254>> \o
    Flatten([k \in DOMAIN text |->
               Flatten([j \in DOMAIN Utf16Units(text[k]) |->
                          LittleEndian(Utf16Units(text[k])[j])])])

Latin1Encodable(text) == \A k \in DOMAIN text : text[k] < 256

Encode(enc, text) ==
    CASE enc = "utf-8" -> Utf8Encode(text)
      [] enc = "utf-16" -> Utf16Encode(text)
      [] enc = "latin1" -> text

\* The length of the well-formed UTF-8 sequence that starts at bytes[k], or 0.
Utf8SeqLen(bytes, k) ==
    LET n == Len(bytes)
        b0 == bytes[k]
        b1 == IF k + 1 <= n THEN bytes[k + 1] ELSE 0
        b2 == IF k + 2 <= n THEN bytes[k + 2] ELSE 0
        b3 == IF k + 3 <= n THEN bytes[k + 3] ELSE 0
    IN  IF b0 < 128 THEN 1
        ELSE IF 194 <= b0 /\ b0 <= 223 /\ IsCont(b1) THEN 2
        ELSE IF b0 = 224 /\ 160 <= b1 /\ b1 <= 191 /\ IsCont(b2) THEN 3
        ELSE IF b0 = 237 /\ 128 <= b1 /\ b1 <= 159 /\ IsCont(b2) THEN 3
        ELSE IF 225 <= b0 /\ b0 <= 239 /\ b0 # 237 /\ IsCont(b1) /\ IsCont(b2) THEN 3
        ELSE IF b0 = 240 /\ 144 <= b1 /\ b1 <= 191 /\ IsCont(b2) /\ IsCont(b3) THEN 4
        ELSE IF 241 <= b0 /\ b0 <= 243 /\ IsCont(b1) /\ IsCont(b2) /\ IsCont(b3) THEN 4
        ELSE IF b0 = 244 /\ 128 <= b1 /\ b1 <= 143 /\ IsCont(b2) /\ IsCont(b3) THEN 4
        ELSE 0

Utf8CodePoint(bytes, k, len) ==
    CASE len = 1 -> bytes[k]
      [] len = 2 -> (bytes[k] - 192) * 64 + (bytes[k + 1] - 128)
      [] len = 3 -> (bytes[k] - 224) * 4096 + (bytes[k + 1] - 128) * 64
                    + (bytes[k + 2] - 128)
      [] len = 4 -> (bytes[k] - 240) * 262144 + (bytes[k + 1] - 128) * 4096
                    + (bytes[k + 2] - 128) * 64 + (bytes[k + 3] - 128)

\* errors='ignore': the decoder emits the well-formed sequence that starts at
\* the byte it stands on, and drops a byte that starts none.  A byte that can
\* start a sequence is never a continuation byte, so it is never inside the
\* sequence another byte starts: the text is the sequences at all such bytes.
Utf8DecodeIgnore(bytes) ==
    LET starts == Positions(bytes, LAMBDA k : Utf8SeqLen(bytes, k) > 0)
    IN  [j \in 1..Len(starts) |->
            Utf8CodePoint(bytes, starts[j], Utf8SeqLen(bytes, starts[j]))]

IsHighSurrogate(u) == 55296 <= u /\ u <= 56319
IsLowSurrogate(u) == 56320 <= u /\ u <= 57343

\* The code units of the bytes after the byte order mark, byte pairs in the
\* given order; a trailing odd byte is dropped.
Utf16UnitsOf(bytes, little) ==
    [j \in 1..((Len(bytes) - 2) \div 2) |->
        IF little THEN bytes[2 * j + 1] + 256 * bytes[2 * j + 2]
        ELSE bytes[2 * j + 2] + 256 * bytes[2 * j + 1]]

\* errors='ignore': a high surrogate and the low one after it make one code
\* point; a surrogate without its partner is dropped.
Utf16Join(units) ==
    LET paired(k) == /\ IsHighSurrogate(units[k])
                     /\ k < Len(units)
                     /\ IsLowSurrogate(units[k + 1])
        plain(k) == ~IsHighSurrogate(units[k]) /\ ~IsLowSurrogate(units[k])
        starts == Positions(units, LAMBDA k : paired(k) \/ plain(k))
    IN  [j \in 1..Len(starts) |->
            LET k == starts[j]
            IN  IF plain(k) THEN units[k]
                ELSE 65536 + (units[k] - 55296) * 1024 + (units[k + 1] - 56320)]

HasBom(bytes) ==
    /\ Len(bytes) >= 2
    /\ <<bytes[1], bytes[2]>> \in {<<255, 254>>, <<254, 255>>}

\* What reading the file under an encoding gives: the text, or the error raised.
\* With errors='ignore' no codec raises UnicodeDecodeError; the utf-16 codec
\* raises a plain UnicodeError on a stream that has no byte order mark.
Decode(enc, bytes) ==
    CASE enc = "utf-8" -> [error |-> "none", text |-> Utf8DecodeIgnore(bytes)]
      [] enc = "utf-16" ->
            IF Len(bytes) < 2 THEN [error |-> "none", text |-> <<>>]
            ELSE IF ~HasBom(bytes) THEN [error |-> "UnicodeError", text |-> <<>>]
            ELSE [error |-> "none",
                  text |-> Utf16Join(Utf16UnitsOf(bytes, bytes[1] = 255))]
      [] enc = "latin1" -> [error |-> "none", text |-> bytes]

(***************************************************************************)
(* json.load on the fragment of JSON the input files are written in: an    *)
(* array of objects {"id":d,"text":"..."} without white space, d one       *)
(* digit.  Any other text is a JSONDecodeError; so is a control character  *)
(* (below U+0020) inside a string, as json's strict mode has it.           *)
(***************************************************************************)
LBracket == <<91>>
RBracket == <<93>>
Comma == <<44>>
ObjectOpenId == <<123, 34, 105, 100, 34, 58>>          \* {"id":
CommaText == <<44, 34, 116, 101, 120, 116, 34, 58, 34>> \* ,"text":"
QuoteObjectClose == <<34, 125>>                         \* "}

RECURSIVE JoinWith(_, _)
JoinWith(ss, sep) ==
    IF ss = <<>> THEN <<>>
    ELSE IF Len(ss) = 1 THEN Head(ss)
    ELSE Head(ss) \o sep \o JoinWith(Tail(ss), sep)

SerializePost(p) ==
    ObjectOpenId \o <<48 + p.id>> \o CommaText \o p.text \o QuoteObjectClose

Serialize(batch) ==
    LBracket \o JoinWith([k \in DOMAIN batch |-> SerializePost(batch[k])], Comma)
    \o RBracket

StartsWith(text, k, lit) ==
    /\ k + Len(lit) - 1 <= Len(text)
    /\ SubSeq(text, k, k + Len(lit) - 1) = lit

\* The position of the quote that closes the string whose content starts at k,
\* or 0 when the string is unterminated or holds a character it may not.
RECURSIVE StringEnd(_, _)
StringEnd(text, k) ==
    IF k > Len(text) THEN 0
    ELSE IF text[k] = 34 THEN k
    ELSE IF text[k] < 32 \/ text[k] = 92 THEN 0
    ELSE StringEnd(text, k + 1)

\* The object that starts at k: [ok, post, next], next the position after it.
ParsePostAt(text, k) ==
    LET d == k + Len(ObjectOpenId)
        t == d + 1 + Len(CommaText)
        q == IF t <= Len(text) + 1 THEN StringEnd(text, t) ELSE 0
        bad == [ok |-> FALSE, post |-> <<>>, next |-> 0]
    IN  IF ~StartsWith(text, k, ObjectOpenId) THEN bad
        ELSE IF d > Len(text) \/ text[d] < 48 \/ text[d] > 57 THEN bad
        ELSE IF ~StartsWith(text, d + 1, CommaText) THEN bad
        ELSE IF q = 0 \/ ~StartsWith(text, q, QuoteObjectClose) THEN bad
        ELSE [ok |-> TRUE,
              post |-> [id |-> text[d] - 48, text |-> SubSeq(text, t, q - 1)],
              next |-> q + 2]

\* The elements of the array from position k on, k the start of an element.
RECURSIVE ParseElements(_, _)
ParseElements(text, k) ==
    LET p == ParsePostAt(text, k)
        bad == [ok |-> FALSE, value |-> <<>>]
    IN  IF ~p.ok \/ p.next > Len(text) THEN bad
        ELSE IF text[p.next] = 93
             THEN IF p.next = Len(text) THEN [ok |-> TRUE, value |-> <<p.post>>]
                  ELSE bad
        ELSE IF text[p.next] = 44
             THEN LET rest == ParseElements(text, p.next + 1)
                  IN  IF rest.ok THEN [ok |-> TRUE, value |-> <<p.post>> \o rest.value]
                      ELSE bad
        ELSE bad

JsonLoad(text) ==
    IF text = LBracket \o RBracket THEN [ok |-> TRUE, value |-> <<>>]
    ELSE IF Len(text) < 2 \/ text[1] # 91 THEN [ok |-> FALSE, value |-> <<>>]
    ELSE ParseElements(text, 2)

(***************************************************************************)
(* The input files: every batch of at most MaxPosts posts stored in each   *)
(* of the three encodings that can store it, and the same files with the   *)
(* closing bracket missing (not valid JSON).                               *)
(***************************************************************************)
\* The texts of the posts: one of Latin-1, one an emoji.
Texts == {<<\HE9>>, <<\H1F600>>}

Batches ==
    UNION {{[k \in 1..n |-> [id |-> k, text |-> t[k]]] : t \in [1..n -> Texts]} :
           n \in 0..MaxPosts}

EncodingsOf(text) ==
    {"utf-8", "utf-16"} \cup (IF Latin1Encodable(text) THEN {"latin1"} ELSE {})

Truncated(text) == SubSeq(text, 1, Len(text) - 1)

\* The file that stores batch b in encoding e.
StoredAs(e, b) == Encode(e, Serialize(b))

ValidFiles ==
    UNION {{StoredAs(e, b) : e \in EncodingsOf(Serialize(b))} : b \in Batches}

InvalidFiles ==
    UNION {{Encode(e, Truncated(Serialize(b))) : e \in EncodingsOf(Serialize(b))} :
           b \in Batches}

Files == ValidFiles \cup InvalidFiles

(***************************************************************************)
(* The LLM's replies, as the JsonOutputParser sees them: text that is not  *)
(* JSON, a JSON array (JSON, but no object), or a JSON object.             *)
(***************************************************************************)
NonJson == [kind |-> "nonjson"]
JsonArray == [kind |-> "array"]
JsonObject(m) == [kind |-> "object", value |-> m]

Tags == {"Jobseekers", "Job Hunting"}
CanonicalTags == {"Job Search", "Jobseekers"}

\* The tag lists of the extractor's replies: at most two tags, as it is asked.
TagLists == {<<>>, <<"Jobseekers">>, <<"Job Hunting">>, <<"Jobseekers", "Job Hunting">>}

\* The keys an extractor reply holds: language, and any of line_count, tags
\* and id, a key that is an original field of the post.
OptionalKeys == {"line_count", "tags", "id"}
ForeignId == 9

ExtractorObject(K, tl) ==
    [k \in K |-> CASE k = "line_count" -> 1
                   [] k = "language" -> "English"
                   [] k = "tags" -> tl
                   [] k = "id" -> ForeignId]

ExtractorObjects ==
    UNION {{ExtractorObject(K, tl) :
              tl \in (IF "tags" \in K THEN TagLists ELSE {<<>>})} :
           K \in {KK \cup {"language"} : KK \in SUBSET OptionalKeys}}

ExtractorResponses ==
    {NonJson, JsonArray} \cup {JsonObject(m) : m \in ExtractorObjects}

UnifierObjects ==
    UNION {[K -> CanonicalTags] : K \in SUBSET Tags}

UnifierResponses ==
    {NonJson, JsonArray} \cup {JsonObject(m) : m \in UnifierObjects}

(***************************************************************************)
(* Values of the state.                                                    *)
(***************************************************************************)
NoFile == [exists |-> FALSE, content |-> <<>>]
NoException == [type |-> "none", message |-> ""]
NoReply == [kind |-> "none"]
NotYet == <<-1>>

\* The parser's own error, not replaced by the coarse one.
ParseFailedWithParserMessage ==
    [type |-> "OutputParserException", message |-> "Invalid json output"]

\* Lines 38 and 69: raise OutputParserException("Context is too big, ...").
ParseFailed ==
    [type |-> "OutputParserException",
     message |-> "Context is too big, unable to process"]

CannotDecode(enc) ==
    [message |-> "Error: Cannot decode file with {encoding}. Trying next encoding.",
     encoding |-> enc]
NotJsonMessage ==
    [message |-> "Error: The file could not be decoded as JSON.", encoding |-> ""]
UnableToRead ==
    [message |-> "Error: Unable to read the file with available encodings.",
     encoding |-> ""]

ExtractCallOf(text) == [kind |-> "extract", post |-> text]
UnifyCallOf(tags) == [kind |-> "unify", tags |-> tags]

\* process_posts is entered (line 73) with one of the files at raw_file_path.
InitWith(files) ==
    /\ file \in files
    /\ pc = "load"
    /\ encIdx = 1
    /\ tried = <<>>
    /\ printed = <<>>
    /\ input = <<>>
    /\ posts = <<>>
    /\ idx = 1
    /\ enriched_posts = <<>>
    /\ inflight = 0
    /\ calls = <<>>
    /\ responses = <<>>
    /\ unified_tags = NoReply
    /\ outfile = NoFile
    /\ writes = 0
    /\ exception = NoException
    /\ twice = NotYet

Init == InitWith(Files)

(***************************************************************************)
(* process_posts, lines 75-88: one iteration of the loop over encodings,   *)
(* with the loop's else clause when the list is exhausted.                 *)
(***************************************************************************)
\* The with block of the try: the file is opened and json.load reads it.
\* [outcome, text]: the exception raised, or "loaded" and the text read.
OpenAndRead(enc, bytes) ==
    LET r == Decode(enc, bytes)
    IN  IF r.error # "none" THEN [outcome |-> r.error, text |-> <<>>]
        ELSE IF ~JsonLoad(r.text).ok THEN [outcome |-> "JSONDecodeError", text |-> r.text]
        ELSE [outcome |-> "loaded", text |-> r.text]

\* A load that stops at a JSON error only after every encoding was tried.
HandlerRetryingOnJsonError(outcome) ==
    CASE outcome = "loaded" -> "break"
      [] outcome \in {"UnicodeDecodeError", "JSONDecodeError"} -> "continue"
      [] OTHER -> "raise"

\* What the try statement does with the outcome of its body: break after a
\* load, the except clause of the exception, or none (the exception leaves).
Handler(outcome) ==
    CASE outcome = "loaded" -> "break"
      [] outcome = "UnicodeDecodeError" -> "continue"
      [] outcome = "JSONDecodeError" -> "return"
      [] OTHER -> "raise"

\* A loop that never runs its body for the last element.
AfterLoopOffByOne(list, k, body, next) == IF k >= Len(list) THEN next ELSE body

\* Where a for loop over list stands at position k: in its body, or past it.
AfterLoop(list, k, body, next) == IF k > Len(list) THEN next ELSE body

LoadAttempt ==
    /\ pc = "load"
    /\ LET enc == encodings[encIdx]
           r == OpenAndRead(enc, file)
       IN  /\ tried' = Append(tried, enc)
           /\ CASE Handler(r.outcome) = "break" ->
                     /\ posts' = JsonLoad(r.text).value
                     /\ input' = posts'
                     /\ pc' = AfterLoop(posts', 1, "extract", "unify")
                     /\ UNCHANGED <<encIdx, printed, exception>>
                [] Handler(r.outcome) = "return" ->
                     /\ printed' = Append(printed, NotJsonMessage)
                     /\ pc' = "returned"
                     /\ UNCHANGED <<encIdx, posts, input, exception>>
                [] Handler(r.outcome) = "continue" ->
                     IF encIdx < Len(encodings)
                     THEN /\ printed' = Append(printed, CannotDecode(enc))
                          /\ encIdx' = encIdx + 1
                          /\ UNCHANGED <<pc, posts, input, exception>>
                     ELSE /\ printed' = printed \o <<CannotDecode(enc), UnableToRead>>
                          /\ pc' = "returned"
                          /\ UNCHANGED <<encIdx, posts, input, exception>>
                [] OTHER ->
                     /\ exception' = [type |-> r.outcome, message |-> enc]
                     /\ pc' = "raised"
                     /\ UNCHANGED <<encIdx, printed, posts, input>>
    /\ UNCHANGED <<file, idx, enriched_posts, inflight, calls, responses,
                   unified_tags, outfile, writes, twice>>

(***************************************************************************)
(* process_posts, lines 90-94, and extract_metadata.                       *)
(***************************************************************************)
\* Lines 91-92 up to chain.invoke: the text is cleaned in place and sent.
ExtractCall ==
    /\ pc = "extract"
    /\ idx <= Len(posts)
    /\ LET cleaned == remove_emoji(posts[idx].text)
       IN  /\ posts' = [posts EXCEPT ![idx].text = cleaned]
           /\ calls' = Append(calls, ExtractCallOf(cleaned))
    /\ inflight' = inflight + 1
    /\ pc' = "extract_wait"
    /\ UNCHANGED <<file, encIdx, tried, printed, input, idx, enriched_posts,
                   responses, unified_tags, outfile, writes, exception, twice>>

\* A list that grows at its head.
PrependPost(list, post) == <<post>> \o list

\* enriched_posts.append(post_with_metadata)
AppendPost(list, post) == Append(list, post)

\* {**post, **metadata}: the keys of both, metadata's value where both have one.
Merge(post, metadata) ==
    [k \in DOMAIN post \cup DOMAIN metadata |->
        IF k \in DOMAIN metadata THEN metadata[k] ELSE post[k]]

\* Lines 34-39 and 93-94: the reply is parsed, merged and appended.
ExtractReturn ==
    /\ pc = "extract_wait"
    /\ inflight' = inflight - 1
    /\ \E reply \in ExtractorResponses :
          /\ responses' = Append(responses, reply)
          /\ CASE reply.kind = "nonjson" ->
                    /\ exception' = ParseFailed
                    /\ pc' = "raised"
                    /\ UNCHANGED <<idx, enriched_posts>>
               [] reply.kind = "array" ->
                    /\ exception' = [type |-> "TypeError", message |-> "not a mapping"]
                    /\ pc' = "raised"
                    /\ UNCHANGED <<idx, enriched_posts>>
               [] reply.kind = "object" ->
                    /\ enriched_posts' =
                           AppendPost(enriched_posts, Merge(posts[idx], reply.value))
                    /\ idx' = idx + 1
                    /\ pc' = AfterLoop(posts, idx + 1, "extract", "unify")
                    /\ UNCHANGED exception
    /\ UNCHANGED <<file, encIdx, tried, printed, input, posts, calls,
                   unified_tags, outfile, writes, twice>>

(***************************************************************************)
(* get_unified_tags, called at line 96.                                    *)
(***************************************************************************)
\* Lines 42-44: the union of the posts' tags.
UniqueTags(list) == UNION {Range(list[k].tags) : k \in DOMAIN list}

\* A unifier step that spares the call when there is no tag to unify.
UnifyCallSkippingEmpty ==
    /\ pc = "unify"
    /\ IF \E k \in DOMAIN enriched_posts : "tags" \notin DOMAIN enriched_posts[k]
       THEN /\ exception' = [type |-> "KeyError", message |-> "tags"]
            /\ pc' = "raised"
            /\ UNCHANGED <<calls, inflight, unified_tags, idx>>
       ELSE IF UniqueTags(enriched_posts) = {}
       THEN /\ unified_tags' = JsonObject([t \in {} |-> t])
            /\ idx' = 1
            /\ pc' = AfterLoop(enriched_posts, 1, "rewrite", "write")
            /\ UNCHANGED <<calls, inflight, exception>>
       ELSE /\ calls' = Append(calls, UnifyCallOf(UniqueTags(enriched_posts)))
            /\ inflight' = inflight + 1
            /\ pc' = "unify_wait"
            /\ UNCHANGED <<exception, unified_tags, idx>>
    /\ UNCHANGED <<file, encIdx, tried, printed, input, posts, enriched_posts,
                   responses, outfile, writes, twice>>

\* Lines 42-63 up to chain.invoke: post['tags'] raises KeyError for a post
\* that has no tags; else the one call is issued.  The order in which join
\* lists the set is not modelled: the call carries the set.
UnifyCall ==
    /\ pc = "unify"
    /\ IF \E k \in DOMAIN enriched_posts : "tags" \notin DOMAIN enriched_posts[k]
       THEN /\ exception' = [type |-> "KeyError", message |-> "tags"]
            /\ pc' = "raised"
            /\ UNCHANGED <<calls, inflight>>
       ELSE /\ calls' = Append(calls, UnifyCallOf(UniqueTags(enriched_posts)))
            /\ inflight' = inflight + 1
            /\ pc' = "unify_wait"
            /\ UNCHANGED exception
    /\ UNCHANGED <<file, encIdx, tried, printed, input, posts, idx,
                   enriched_posts, responses, unified_tags, outfile, writes, twice>>

\* Lines 65-70 and 96: the reply is parsed and bound to unified_tags.
UnifyReturn ==
    /\ pc = "unify_wait"
    /\ inflight' = inflight - 1
    /\ \E reply \in UnifierResponses :
          IF reply.kind = "nonjson"
          THEN /\ exception' = ParseFailed
               /\ pc' = "raised"
               /\ UNCHANGED <<unified_tags, idx>>
          ELSE /\ unified_tags' = reply
               /\ idx' = 1
               /\ pc' = AfterLoop(enriched_posts, 1, "rewrite", "write")
               /\ UNCHANGED exception
    /\ UNCHANGED <<file, encIdx, tried, printed, input, posts, enriched_posts,
                   calls, responses, outfile, writes, twice>>

(***************************************************************************)
(* process_posts, lines 98-101: the tags of one post are rewritten.        *)
(***************************************************************************)
\* A lookup that never finds the tag.
GetIgnoringMap(m, tag) == tag

\* dict.get(tag, tag)
Get(m, tag) == IF tag \in DOMAIN m THEN m[tag] ELSE tag

\* The set comprehension of line 100.
NewTags(m, current_tags) == {Get(m, current_tags[k]) : k \in DOMAIN current_tags}

\* list(new_tags): the elements of the set, once each, in an order Python
\* does not specify.
ListsOf(set) == {s \in [1..Cardinality(set) -> set] : Range(s) = set}

RewriteStep ==
    /\ pc = "rewrite"
    /\ idx <= Len(enriched_posts)
    /\ LET current_tags == enriched_posts[idx].tags
       IN  IF current_tags # <<>> /\ unified_tags.kind = "array"
           THEN /\ exception' = [type |-> "AttributeError", message |-> "get"]
                /\ pc' = "raised"
                /\ UNCHANGED <<enriched_posts, idx>>
           ELSE /\ \E new_list \in
                        ListsOf(IF current_tags = <<>> THEN {}
                                ELSE NewTags(unified_tags.value, current_tags)) :
                      enriched_posts' = [enriched_posts EXCEPT ![idx].tags = new_list]
                /\ idx' = idx + 1
                /\ pc' = AfterLoop(enriched_posts, idx + 1, "rewrite", "write")
                /\ UNCHANGED exception
    /\ UNCHANGED <<file, encIdx, tried, printed, input, posts, inflight, calls,
                   responses, unified_tags, outfile, writes, twice>>

(***************************************************************************)
(* process_posts, lines 103-104: the batch is written.                     *)
(***************************************************************************)
WriteOutput ==
    /\ pc = "write"
    /\ outfile' = [exists |-> TRUE, content |-> enriched_posts]
    /\ writes' = writes + 1
    /\ pc' = "done"
    /\ UNCHANGED <<file, encIdx, tried, printed, input, posts, idx,
                   enriched_posts, inflight, calls, responses, unified_tags,
                   exception, twice>>

Next ==
    \/ LoadAttempt
    \/ ExtractCall
    \/ ExtractReturn
    \/ UnifyCall
    \/ UnifyReturn
    \/ RewriteStep
    \/ WriteOutput

Spec == Init /\ [][Next]_vars

(***************************************************************************)
(* The loader on more files: every batch of at most one post stored in     *)
(* each encoding that can store it, and every proper prefix of such a      *)
(* file (a file cut short, also inside a character).                       *)
(***************************************************************************)
ShortBatches == {<<>>} \cup {<<[id |-> 1, text |-> t]>> : t \in Texts}

ShortFiles ==
    UNION {{StoredAs(e, b) : e \in EncodingsOf(Serialize(b))} : b \in ShortBatches}

Prefixes(bytes) == {SubSeq(bytes, 1, n) : n \in 0..(Len(bytes) - 1)}

LoaderFiles == ShortFiles \cup UNION {Prefixes(f) : f \in ShortFiles}

LoaderInit == InitWith(LoaderFiles)

LoaderSpec == LoaderInit /\ [][Next]_vars

(***************************************************************************)
(* remove_emoji on strings over the boundaries of its ranges: a batch of   *)
(* one post, loaded from its utf-8 file, runs lines 90-92, and the filter  *)
(* is applied once more to what was sent.                                  *)
(***************************************************************************)
EmojiAlphabet ==
    {97, \H24C1, \H24C2, \H27B0, \H4E2D, \H1F251, \H1F252, \H1F2FF, \H1F300,
     \H1F5FF, \H1F600, \H1F64F, \H1F650, \H1F680, \H1F6FF, \H1F700}

EmojiInit ==
    /\ \E text \in SeqsUpTo(EmojiAlphabet, MaxEmojiStrLen) :
          /\ input = <<[id |-> 1, text |-> text]>>
          /\ file = StoredAs("utf-8", input)
    /\ posts = input
    /\ pc = "extract"
    /\ encIdx = 1
    /\ tried = <<"utf-8">>
    /\ printed = <<>>
    /\ idx = 1
    /\ enriched_posts = <<>>
    /\ inflight = 0
    /\ calls = <<>>
    /\ responses = <<>>
    /\ unified_tags = NoReply
    /\ outfile = NoFile
    /\ writes = 0
    /\ exception = NoException
    /\ twice = NotYet

FilterAgain ==
    /\ pc = "extract_wait"
    /\ twice = NotYet
    /\ twice' = remove_emoji(posts[idx].text)
    /\ UNCHANGED <<file, pc, encIdx, tried, printed, input, posts, idx,
                   enriched_posts, inflight, calls, responses, unified_tags,
                   outfile, writes, exception>>

EmojiNext ==
    \/ ExtractCall
    \/ FilterAgain

EmojiSpec == EmojiInit /\ [][EmojiNext]_vars

(***************************************************************************)
(* Properties.                                                             *)
(***************************************************************************)
MetadataKeys == {"line_count", "language", "tags"}

CountCalls(kind) == Cardinality({k \in DOMAIN calls : calls[k].kind = kind})

\* Post k of the input with its text cleaned, as line 91 leaves it.
CleanedInput(k) == [input[k] EXCEPT !.text = SelectSeq(@, LAMBDA c : ~InEmojiClass(c))]

\* record is post k enriched: every key of the k-th reply holds the reply's
\* value (tags apart, which the rewrite replaces by a list), every other key
\* the cleaned post's value, and there is no other key.
IsEnrichedRecordOf(record, k) ==
    /\ k <= Len(responses)
    /\ responses[k].kind = "object"
    /\ LET reply == responses[k].value
       IN  /\ DOMAIN record = DOMAIN input[k] \cup DOMAIN reply
           /\ \A key \in DOMAIN reply \ {"tags"} : record[key] = reply[key]
           /\ \A key \in DOMAIN input[k] \ DOMAIN reply :
                 record[key] = CleanedInput(k)[key]
           /\ "tags" \in DOMAIN reply
           /\ record.tags \in Seq(Tags \cup CanonicalTags)

\* t rewritten through the unifier's mapping m is f.
MapsTo(m, t, f) == (t \in DOMAIN m /\ f = m[t]) \/ (t \notin DOMAIN m /\ f = t)

\* final is a duplicate-free list of exactly the tags of original, each
\* rewritten through m.
IsRewriteOf(final, m, original) ==
    /\ Cardinality(Range(final)) = Len(final)
    /\ \A t \in Range(original) : \E f \in Range(final) : MapsTo(m, t, f)
    /\ \A f \in Range(final) : \E t \in Range(original) : MapsTo(m, t, f)
    /\ \A f \in Range(final) :
          f \in Range(m) \/ (f \in Range(original) /\ f \notin DOMAIN m)

\* The unifier's mapping; when its reply was an array, the rewrite got past
\* posts without tags only, for which every mapping does the same.
NoMapping == [t \in {} |-> t]
TagMap == IF unified_tags.kind = "object" THEN unified_tags.value ELSE NoMapping

\* C1: the output file is absent, or it was written once, at the end of a run
\* that did not fail, and holds one enriched record (reply merged, tags
\* rewritten) for every post of the batch; a run that failed wrote nothing.
C1_AllOrNothing ==
    /\ writes <= 1
    /\ (outfile = NoFile) <=> (writes = 0)
    /\ pc \in {"raised", "returned"} => outfile = NoFile
    /\ outfile.exists =>
          /\ pc = "done"
          /\ exception = NoException
          /\ Len(outfile.content) = Len(input)
          /\ \A k \in DOMAIN outfile.content :
                /\ IsEnrichedRecordOf(outfile.content[k], k)
                /\ IsRewriteOf(outfile.content[k].tags, TagMap, responses[k].value.tags)

\* C1's case: a run failed in the tag rewrite after it had rewritten a post.
C1_Witness ==
    /\ pc = "raised"
    /\ exception.type = "AttributeError"
    /\ idx = 2
    /\ outfile = NoFile

\* C2: when the reply for the k-th post is not JSON, process_posts raises the
\* parse error with its message, k extractor calls and no unifier call have
\* been issued, the posts after k are untouched, nothing is written and no
\* step follows.
C2_ExtractorParseFailure ==
    (responses # <<>> /\ responses[Len(responses)].kind = "nonjson") =>
        LET k == Len(responses)
        IN  /\ pc = "raised"
            /\ exception = ParseFailed
            /\ exception.message = "Context is too big, unable to process"
            /\ CountCalls("extract") = k
            /\ CountCalls("unify") = 0
            /\ inflight = 0
            /\ Len(enriched_posts) = k - 1
            /\ \A j \in (k + 1)..Len(posts) : posts[j] = input[j]
            /\ outfile = NoFile
            /\ writes = 0
            /\ ~ENABLED Next

\* C2's case: the reply for the second post of two was not JSON.
C2_Witness ==
    /\ Len(input) = 2
    /\ Len(responses) = 2
    /\ responses[2].kind = "nonjson"
    /\ pc = "raised"

\* C3: at most one call is in flight; the j-th call is the extractor call for
\* the j-th post, issued after the replies to the calls before it; the unifier
\* call is the last call, issued once all N extractor calls have returned; a
\* run that ends without aborting has issued N extractor calls and then one
\* unifier call, whatever N and the tags.
C3_CallSequence ==
    /\ inflight \in {0, 1}
    /\ (inflight = 1) <=> (pc \in {"extract_wait", "unify_wait"})
    /\ \A j \in DOMAIN calls :
          IF calls[j].kind = "extract"
          THEN /\ j <= Len(input)
               /\ calls[j].post = CleanedInput(j).text
               /\ Len(responses) >= j - 1
          ELSE /\ j = Len(calls)
               /\ j = Len(input) + 1
               /\ Len(responses) = Len(input)
               /\ calls[j].tags =
                      UNION {Range(responses[k].value.tags) : k \in DOMAIN responses}
    /\ pc \in {"unify_wait", "rewrite", "write", "done"} =>
          /\ Len(calls) = Len(input) + 1
          /\ CountCalls("extract") = Len(input)
          /\ CountCalls("unify") = 1

\* C3's case: a run of two posts, none with a tag, ended after its one
\* unifier call.
C3_Witness ==
    /\ pc = "done"
    /\ Len(input) = 2
    /\ calls[3] = UnifyCallOf({})

\* C4: once a post's tags are rewritten, its tag list is the duplicate-free
\* list of TagMap.get(t, t) over its extracted tags t: a mapped tag by its
\* value, any other tag itself; every final tag is in TagMap's range or an
\* extracted tag that is no key of TagMap.
C4_TagRewrite ==
    pc \in {"rewrite", "write", "done"} =>
        \A k \in DOMAIN enriched_posts :
            (pc = "rewrite" => k < idx) =>
                IsRewriteOf(enriched_posts[k].tags, TagMap, responses[k].value.tags)

\* C4's case: posts tagged ["Jobseekers"] and ["Job Hunting"], both mapped to
\* "Job Search", end with the tags ["Job Search"].
C4_Witness ==
    /\ pc = "done"
    /\ Len(responses) = 2
    /\ responses[1].value.tags = <<"Jobseekers">>
    /\ responses[2].value.tags = <<"Job Hunting">>
    /\ unified_tags.value = [t \in Tags |-> "Job Search"]
    /\ outfile.content[1].tags = <<"Job Search">>
    /\ outfile.content[2].tags = <<"Job Search">>

\* C5: the written output has the length of the input, and its i-th element
\* is the enriched record of the i-th input post.
C5_OrderPreserved ==
    outfile.exists =>
        /\ Len(outfile.content) = Len(input)
        /\ \A k \in DOMAIN outfile.content :
              /\ outfile.content[k].text = CleanedInput(k).text
              /\ \A key \in DOMAIN responses[k].value \ {"tags"} :
                    outfile.content[k][key] = responses[k].value[key]
              /\ "id" \notin DOMAIN responses[k].value => outfile.content[k].id = input[k].id
              /\ Range(outfile.content[k].tags) =
                    {Get(TagMap, t) : t \in Range(responses[k].value.tags)}

\* C5's case: two posts of different texts and different replies were written.
C5_Witness ==
    /\ outfile.exists
    /\ Len(outfile.content) = 2
    /\ input[1].text # input[2].text
    /\ outfile.content[1].id = 1
    /\ outfile.content[2].id = 2
    /\ responses[1] # responses[2]

\* C6 (the claim as stated): a batch stored in any of the three encodings
\* loads, and loads as that batch.
C6_AllEncodingsLoadEqual ==
    \A b \in ShortBatches :
        \A e \in EncodingsOf(Serialize(b)) :
            (file = StoredAs(e, b) /\ pc # "load") =>
                /\ pc # "returned"
                /\ exception.type \notin {"UnicodeError", "UnicodeDecodeError"}
                /\ input = b

\* The first encoding of the list that decodes the file without an error.
FirstDecoding ==
    CHOOSE n \in 1..Len(encodings) :
        /\ Decode(encodings[n], file).error = "none"
        /\ \A j \in 1..(n - 1) : Decode(encodings[j], file).error # "none"

\* C7: when the file is not valid JSON under the first encoding that decodes
\* it, no later encoding is tried, and the load ends the run: the diagnostic
\* is printed, process_posts returns, no exception leaves it, no LLM call is
\* issued and nothing is written.
C7_NoFallbackOnJsonError ==
    ~JsonLoad(Decode(encodings[FirstDecoding], file).text).ok =>
        /\ Len(tried) <= FirstDecoding
        /\ pc \in {"load", "returned"}
        /\ pc = "load" => Len(tried) < FirstDecoding
        /\ pc = "returned" =>
              /\ tried = SubSeq(encodings, 1, FirstDecoding)
              /\ printed # <<>>
              /\ printed[Len(printed)] = NotJsonMessage
        /\ exception = NoException
        /\ calls = <<>>
        /\ inflight = 0
        /\ outfile = NoFile
        /\ ~ENABLED (ExtractCall \/ UnifyCall \/ WriteOutput)

\* C7's case: a file that is not valid JSON was opened, and the run returned.
C7_Witness ==
    /\ file = Truncated(StoredAs("utf-8", <<[id |-> 1, text |-> <<\HE9>>]>>))
    /\ pc = "returned"
    /\ tried = <<"utf-8">>
    /\ printed = <<NotJsonMessage>>

\* C8 (the claim as stated): every post that has reached the unifier's call,
\* and every post of a written output, has the three metadata fields; a reply
\* that lacks one of them makes the run abort without output.
C8_AllFieldsOrAbort ==
    /\ pc \in {"unify_wait", "rewrite", "write", "done"} =>
          \A k \in DOMAIN enriched_posts : MetadataKeys \subseteq DOMAIN enriched_posts[k]
    /\ outfile.exists =>
          \A k \in DOMAIN outfile.content : MetadataKeys \subseteq DOMAIN outfile.content[k]
    /\ (\E k \in DOMAIN responses :
           /\ responses[k].kind = "object"
           /\ ~(MetadataKeys \subseteq DOMAIN responses[k].value)) =>
          /\ pc # "done"
          /\ outfile = NoFile

\* C9 (the claim as stated, for replies that hold the three metadata keys):
\* the keys of an output record are the post's fields and the three metadata
\* keys, and every field of the post but text has its input value.
C9_OriginalFieldsPreserved ==
    (/\ outfile.exists
     /\ \A k \in DOMAIN responses : MetadataKeys \subseteq DOMAIN responses[k].value) =>
        \A k \in DOMAIN outfile.content :
            /\ DOMAIN outfile.content[k] = DOMAIN input[k] \cup MetadataKeys
            /\ \A key \in DOMAIN input[k] \ {"text"} : outfile.content[k][key] = input[k][key]

\* C10: remove_emoji(S) is the subsequence of the characters of S outside the
\* ranges, in order; so the text sent to the extractor, which is the text the
\* post keeps, has no character of the ranges, equals S when S has none, and
\* the filter applied to it once more changes nothing.
C10_RemoveEmoji ==
    LET text == input[1].text
        kept == SelectSeq(text, LAMBDA c : ~InEmojiClass(c))
    IN  /\ pc = "extract" => posts = input /\ calls = <<>>
        /\ pc = "extract_wait" =>
              /\ calls = <<ExtractCallOf(kept)>>
              /\ posts[1].text = kept
              /\ \A c \in Range(calls[1].post) : ~InEmojiClass(c)
              /\ (\A c \in Range(text) : ~InEmojiClass(c)) => calls[1].post = text
        /\ twice # NotYet => pc = "extract_wait" /\ twice = posts[1].text

\* C10's case: "a" followed by U+1F600 and U+1F680 was sent as "a", and the
\* filter applied again gave "a".
C10_Witness ==
    /\ input[1].text = <<97, \H1F600, \H1F680>>
    /\ calls = <<ExtractCallOf(<<97>>)>>
    /\ twice = <<97>>

====
